---- MODULE Spec2Model ----
(***************************************************************************)
(* A model of stocker/stocker.py: the Stock class (one ticker's price      *)
(* series, its derived columns and statistics) and the Market class (a     *)
(* basket of Stocks plus a risk-free Stock, with basket statistics).       *)
(*                                                                         *)
(* Strings are sequences of one-character strings.  Floating point values  *)
(* are exact rationals [n, d] (d > 0, lowest terms); not-a-number is       *)
(* [n |-> 0, d |-> 0]; a square root is kept symbolically by its radicand. *)
(* A pandas DataFrame is a function from column name to the sequence of    *)
(* that column's values.  yfinance (Ticker, download) is the external      *)
(* provider: a fixed, deterministic table of daily bars.                   *)
(***************************************************************************)
EXTENDS Integers, Sequences, FiniteSets, TLC

\* ------------------------------------------------------------------ bounds
\* Last calendar day of the modelled period (days are 1..MaxDay).
MaxDay == 3
\* Most member symbols a caller passes to Market.
MaxMembers == 2
\* Most operations a caller runs on a Market after constructing it.
MaxMarketOps == 2

\* ----------------------------------------------------------------- strings
LowerCase == <<"a", "c", "f", "i", "l", "m", "o", "p", "r", "s", "t", "y", "z">>

UpperCase == <<"A", "C", "F", "I", "L", "M", "O", "P", "R", "S", "T", "Y", "Z">>

\* str.upper() on one character.
UpperChar(c) ==
    IF \E i \in 1..Len(LowerCase) : LowerCase[i] = c
    THEN UpperCase[CHOOSE i \in 1..Len(LowerCase) : LowerCase[i] = c]
    ELSE c

\* str.upper()
Upper(s) == [i \in 1..Len(s) |-> UpperChar(s[i])]

\* str.split(" ")[0]: the text before the first space (all of it when there
\* is no space, the empty string when the text starts with a space).
RECURSIVE SplitFirst(_)
SplitFirst(s) ==
    IF s = <<>> THEN <<>>
    ELSE IF Head(s) = " " THEN <<>>
    ELSE <<Head(s)>> \o SplitFirst(Tail(s))

\* The ticker strings a caller passes: "tsla", "TSLA", "msft", " msft corp",
\* "msft corp", "spy", "spti", "zz" and "".
Symbols ==
    { <<"t", "s", "l", "a">>,
      <<"T", "S", "L", "A">>,
      <<"m", "s", "f", "t">>,
      <<" ", "m", "s", "f", "t", " ", "c", "o", "r", "p">>,
      <<"m", "s", "f", "t", " ", "c", "o", "r", "p">>,
      <<"s", "p", "y">>,
      <<"s", "p", "t", "i">>,
      <<"z", "z">>,
      <<>> }

\* ------------------------------------------------------------------ floats
NaN == [n |-> 0, d |-> 0]

IsNaN(x) == x.d = 0

Abs(i) == IF i < 0 THEN -i ELSE i

RECURSIVE GCD(_, _)
GCD(a, b) == IF b = 0 THEN a ELSE GCD(b, a % b)

\* The float n/d for d # 0.
Rat(n, d) ==
    LET g == GCD(Abs(n), Abs(d))
        s == IF d < 0 THEN -1 ELSE 1
    IN  [n |-> (s * n) \div g, d |-> (s * d) \div g]

FromInt(i) == [n |-> i, d |-> 1]

\* float + float
Add(x, y) ==
    IF IsNaN(x) \/ IsNaN(y) THEN NaN
    ELSE Rat(x.n * y.d + y.n * x.d, x.d * y.d)

\* float / positive int
DivInt(x, c) == IF IsNaN(x) THEN NaN ELSE Rat(x.n, x.d * c)

RECURSIVE SeqSum(_)
SeqSum(s) == IF s = <<>> THEN 0 ELSE Head(s) + SeqSum(Tail(s))

RECURSIVE SeqMax(_)
SeqMax(s) ==
    IF Len(s) = 1 THEN s[1]
    ELSE LET m == SeqMax(Tail(s)) IN IF s[1] >= m THEN s[1] ELSE m

RECURSIVE SeqMin(_)
SeqMin(s) ==
    IF Len(s) = 1 THEN s[1]
    ELSE LET m == SeqMin(Tail(s)) IN IF s[1] <= m THEN s[1] ELSE m

\* pandas Series.mean()
SeriesMean(s) == IF s = <<>> THEN NaN ELSE Rat(SeqSum(s), Len(s))

\* pandas Series.var(): the sample variance (n - 1 in the denominator),
\* not-a-number for fewer than two values.
SeriesVar(s) ==
    IF Len(s) < 2 THEN NaN
    ELSE LET n == Len(s)
             sum == SeqSum(s)
             sumsq == SeqSum([i \in 1..n |-> s[i] * s[i]])
         IN  Rat(n * sumsq - sum * sum, n * (n - 1))

\* pandas Series.std(): the square root of var(), kept by its radicand.
SeriesStd(s) == [sqrt_of |-> SeriesVar(s)]

SeriesMax(s) == IF s = <<>> THEN NaN ELSE FromInt(SeqMax(s))

SeriesMin(s) == IF s = <<>> THEN NaN ELSE FromInt(SeqMin(s))

\* ---------------------------------------------------------------- provider
\* The tickers the provider knows: TSLA, MSFT, SPY and SPTI.
TSLA == <<"T", "S", "L", "A">>

MSFT == <<"M", "S", "F", "T">>

SPY == <<"S", "P", "Y">>

SPTI == <<"S", "P", "T", "I">>

KnownTickers == {TSLA, MSFT, SPY, SPTI}

\* First day the provider has a bar for a known ticker (SPY lists late, so
\* that two tickers can have different bar counts over one date range).
FirstDay(t) == IF t = SPY THEN 2 ELSE 1

PriceBase(t) ==
    IF t = TSLA THEN 20 ELSE IF t = MSFT THEN 30 ELSE IF t = SPY THEN 40 ELSE 10

\* The provider's bar of ticker t on day d.
BarOpen(t, d) == PriceBase(t) + ((2 * d) % 5)

BarClose(t, d) == PriceBase(t) + ((3 * d + Len(t)) % 7)

BarHigh(t, d) ==
    (IF BarOpen(t, d) >= BarClose(t, d) THEN BarOpen(t, d) ELSE BarClose(t, d))
    + 1 + (d % 2)

BarLow(t, d) ==
    (IF BarOpen(t, d) <= BarClose(t, d) THEN BarOpen(t, d) ELSE BarClose(t, d))
    - 1 - (d % 3)

\* Date strings: a date is one character (the digit of its day); a date-time
\* is a date, a space and a clock, as str(datetime.now()) gives.
Digits == <<"1", "2", "3", "4", "5", "6", "7", "8", "9">>

DateStrings == {<<Digits[d]>> : d \in 1..MaxDay}

DateTimeStrings == {<<Digits[d], " ", "t">> : d \in 1..MaxDay}

\* The day a date string names, as the provider parses it.
DayOf(date) == CHOOSE d \in 1..Len(Digits) : Digits[d] = date[1]

\* The days of [start, end) on which ticker has a bar.
RECURSIVE DaysFrom(_, _, _)
DaysFrom(ticker, d, end) ==
    IF d >= end \/ d > MaxDay THEN <<>>
    ELSE IF d < FirstDay(ticker) THEN DaysFrom(ticker, d + 1, end)
    ELSE <<d>> \o DaysFrom(ticker, d + 1, end)

\* yfinance.download(tickers=ticker, start=start, end=end): the frame of the
\* ticker's bars from start (inclusive) to end (exclusive), in date order; an
\* empty frame for a ticker the provider does not know.
Download(ticker, start, end) ==
    LET days == IF ticker \in KnownTickers
                THEN DaysFrom(ticker, DayOf(start), DayOf(end))
                ELSE <<>>
    IN  [Date  |-> days,
         Open  |-> [i \in 1..Len(days) |-> BarOpen(ticker, days[i])],
         High  |-> [i \in 1..Len(days) |-> BarHigh(ticker, days[i])],
         Low   |-> [i \in 1..Len(days) |-> BarLow(ticker, days[i])],
         Close |-> [i \in 1..Len(days) |-> BarClose(ticker, days[i])]]

\* yfinance.Ticker(symbol): the provider's handle, which upper-cases the
\* symbol it is given.
Ticker(symbol) == [ticker |-> Upper(symbol)]

\* Ticker.info has a 'beta' entry for the tickers the provider knows.
HasBeta(data) == data.ticker \in KnownTickers

InfoBeta(data) == Rat(Len(data.ticker) + 5, 4)

\* ------------------------------------------------------------------- Stock
None == "None"

RawColumns == {"Date", "Open", "High", "Low", "Close"}

\* The raw (provider) columns of a frame.
Raw(frame) == [c \in RawColumns |-> frame[c]]

NumRows(frame) == Len(frame["Date"])

\* A getter that adds each delta onto the derived column already stored.
HistoryGetCompounding(frame) ==
    [c \in (DOMAIN frame) \cup {"Close-Open", "High-Low"} |->
        IF c = "Close-Open"
        THEN [i \in 1..NumRows(frame) |->
                (IF c \in DOMAIN frame THEN frame[c][i] ELSE 0)
                + frame["Close"][i] - frame["Open"][i]]
        ELSE IF c = "High-Low"
        THEN [i \in 1..NumRows(frame) |->
                (IF c \in DOMAIN frame THEN frame[c][i] ELSE 0)
                + frame["High"][i] - frame["Low"][i]]
        ELSE frame[c]]

\* Stock.history (getter): writes the two derived columns into the stored
\* frame, computed from its Close, Open, High and Low columns, and returns it.
HistoryGet(frame) ==
    [c \in (DOMAIN frame) \cup {"Close-Open", "High-Low"} |->
        IF c = "Close-Open"
        THEN [i \in 1..NumRows(frame) |-> frame["Close"][i] - frame["Open"][i]]
        ELSE IF c = "High-Low"
        THEN [i \in 1..NumRows(frame) |-> frame["High"][i] - frame["Low"][i]]
        ELSE frame[c]]

\* The keys of the statistics dictionaries and the column each one reads.
StatKeys == {"open", "close", "high", "low", "close-open", "high-low"}

ColumnOf(key) ==
    CASE key = "open" -> "Open"
      [] key = "close" -> "Close"
      [] key = "high" -> "High"
      [] key = "low" -> "Low"
      [] key = "close-open" -> "Close-Open"
      [] key = "high-low" -> "High-Low"

\* Stock.stock_data (setter): stores the handle and downloads the series of
\* the stored ticker over the stored dates.
StockDataSet(self, data) ==
    [self EXCEPT !._stock_data = data,
                 !._history = Download(self._ticker, self.start_date, self.end_date)]

\* Stock.calculate_stats, lines 51-53: the return of the period,
\* (last close - first open) / first open.
ReturnPct(h) ==
    LET c == h["Close"][NumRows(h)]
        o == h["Open"][1]
    IN  Rat(c - o, o)

\* Stock.calculate_stats, lines 51-88: the statistics of a non-empty frame
\* that has its derived columns.
FrameStats(h) ==
    [return_pct |-> ReturnPct(h),
     average |-> [k \in StatKeys |-> SeriesMean(h[ColumnOf(k)])],
     variance |-> [k \in StatKeys |-> SeriesVar(h[ColumnOf(k)])],
     std_dev |-> [k \in StatKeys |-> SeriesStd(h[ColumnOf(k)])],
     max |-> [k \in StatKeys |-> SeriesMax(h[ColumnOf(k)])],
     min |-> [k \in StatKeys |-> SeriesMin(h[ColumnOf(k)])]]

\* Stock.calculate_stats: the object afterwards and the exception raised
\* ("none" when it returns).  An exception leaves the attributes assigned
\* before it in place: 'beta' missing from the provider's info raises
\* KeyError at line 50, an empty frame raises ValueError at line 51 (.item()),
\* a first open of 0 raises ZeroDivisionError at line 53.
CalculateStats(self) ==
    IF ~HasBeta(self._stock_data)
    THEN [self |-> self, exc |-> "KeyError"]
    ELSE
    LET s1 == [self EXCEPT !.beta = InfoBeta(self._stock_data),
                           !._history = HistoryGet(self._history)]
        h == s1._history
        stats == FrameStats(h)
    IN  IF NumRows(h) = 0
        THEN [self |-> s1, exc |-> "ValueError"]
        ELSE IF h["Open"][1] = 0
        THEN [self |-> s1, exc |-> "ZeroDivisionError"]
        ELSE [self |->
                [s1 EXCEPT
                    !.return_pct = stats.return_pct,
                    !.average = stats.average,
                    !.variance = stats.variance,
                    !.std_dev = stats.std_dev,
                    !.max = stats.max,
                    !.min = stats.min],
              exc |-> "none"]

\* Stock.__init__: the object built and the exception raised ("none" when
\* the constructor returns; otherwise no object exists).
StockInit(symbol, start, end) ==
    LET s0 == [_ticker |-> SplitFirst(Upper(symbol)),
               _history |-> None,
               start_date |-> SplitFirst(start),
               end_date |-> SplitFirst(end),
               _stock_data |-> None,
               beta |-> None, return_pct |-> None, average |-> None,
               variance |-> None, std_dev |-> None, max |-> None, min |-> None]
    IN  CalculateStats(StockDataSet(s0, Ticker(s0._ticker)))

\* Stock.ticker (setter)
TickerSet(self, symbol) ==
    LET s1 == [self EXCEPT !._ticker = Upper(symbol)]
    IN  CalculateStats(StockDataSet(s1, Ticker(symbol)))

\* Stock.requery_data
RequeryData(self, start, end) ==
    Download(self._ticker, SplitFirst(start), SplitFirst(end))

\* ------------------------------------------------------------------ Market
\* The keys of the Market's statistics dictionaries.
MktKeys == {"open", "close", "high", "low"}

\* Market.mkt_stats, the loop: c, avg, vari, stdv and ret after the stocks
\* from the i-th on are added.  stdv, a sum of square roots, is kept as the
\* sequence of their radicands in the order added.
RECURSIVE MktLoop(_, _, _, _)
MktLoop(stocks, col, i, acc) ==
    IF i > Len(stocks) THEN acc
    ELSE MktLoop(stocks, col, i + 1,
            [c    |-> acc.c + 1,
             avg  |-> Add(acc.avg, stocks[i].average[col]),
             vari |-> Add(acc.vari, stocks[i].variance[col]),
             stdv |-> Append(acc.stdv, stocks[i].std_dev[col].sqrt_of),
             ret  |-> Add(acc.ret, stocks[i].return_pct)])

\* The rows of one column of every stock's frame, one after the other.
RECURSIVE PooledColumn(_, _, _)
PooledColumn(stocks, col, i) ==
    IF i > Len(stocks) THEN <<>>
    ELSE stocks[i]._history[ColumnOf(col)] \o PooledColumn(stocks, col, i + 1)

\* Statistics of the pooled bars instead of the mean of the stocks' own.
MktStatsPooled(stocks, col) ==
    LET acc == MktLoop(stocks, col, 1,
                       [c |-> 0, avg |-> FromInt(0), vari |-> FromInt(0),
                        stdv |-> <<>>, ret |-> FromInt(0)])
        pool == PooledColumn(stocks, col, 1)
    IN  <<SeriesMean(pool),
          SeriesVar(pool),
          [sum_sqrt_of |-> <<SeriesVar(pool)>>, div |-> 1],
          DivInt(acc.ret, acc.c)>>

\* Market.mkt_stats for a non-empty list: [avg/c, vari/c, stdv/c, ret/c].
MktStats(stocks, col) ==
    LET acc == MktLoop(stocks, col, 1,
                       [c |-> 0, avg |-> FromInt(0), vari |-> FromInt(0),
                        stdv |-> <<>>, ret |-> FromInt(0)])
    IN  <<DivInt(acc.avg, acc.c),
          DivInt(acc.vari, acc.c),
          [sum_sqrt_of |-> acc.stdv, div |-> acc.c],
          DivInt(acc.ret, acc.c)>>

\* Market.calculate_stats: the object afterwards and the exception raised.
\* With no stocks the loop leaves c = 0 and the int division 0/0 raises.
MarketCalculateStats(self) ==
    IF Len(self.stocks) = 0
    THEN [self |-> self, exc |-> "ZeroDivisionError"]
    ELSE
    LET open_stats == MktStats(self.stocks, "open")
        close_stats == MktStats(self.stocks, "close")
        high_stats == MktStats(self.stocks, "high")
        low_stats == MktStats(self.stocks, "low")
        pick(n) == [open |-> open_stats[n], close |-> close_stats[n],
                    high |-> high_stats[n], low |-> low_stats[n]]
    IN  [self |->
            [self EXCEPT
                !.average = pick(1),
                !.variance = pick(2),
                !.std_dev = pick(3),
                !.raw_return_pct = open_stats[4]],
          exc |-> "none"]

\* The symbols kept as given, without upper().
MarketTickersAsGiven(symbols) == symbols

\* Market.__init__, line 135: the upper-cased symbols.
MarketTickers(symbols) == [i \in 1..Len(symbols) |-> Upper(symbols[i])]

\* Each Stock inserted at the front of the list instead of appended.
BuildStocksReversed(tickers, start, end) ==
    [i \in 1..Len(tickers) |-> StockInit(tickers[Len(tickers) + 1 - i], start, end)]

\* Market.__init__, lines 136-138: one Stock per ticker, appended in order;
\* each entry is the constructor's result (object and exception).
BuildStocks(tickers, start, end) ==
    [i \in 1..Len(tickers) |-> StockInit(tickers[i], start, end)]

\* Market.__init__: the object built and the exception raised (that of the
\* first Stock constructor to fail, else that of calculate_stats).
MarketInit(symbols, rf, start, end) ==
    LET tickers == MarketTickers(symbols)
        built == BuildStocks(tickers, start, end)
        failed == {i \in 1..Len(built) : built[i].exc # "none"}
        risk == StockInit(rf, start, end)
        m0 == [tickers |-> tickers,
               stocks |-> [i \in 1..Len(built) |-> built[i].self],
               risk_free |-> risk.self,
               start_date |-> SplitFirst(start),
               end_date |-> SplitFirst(end),
               average |-> None, variance |-> None, std_dev |-> None,
               raw_return_pct |-> None]
    IN  IF failed # {}
        THEN [self |-> m0, exc |-> built[CHOOSE i \in failed : \A j \in failed : i <= j].exc]
        ELSE IF risk.exc # "none"
        THEN [self |-> m0, exc |-> risk.exc]
        ELSE MarketCalculateStats(m0)

\* The member symbols a caller passes to Market: "tsla", "msft corp",
\* " msft corp", "spy" and "zz".
MemberSymbols ==
    { <<"t", "s", "l", "a">>,
      <<"m", "s", "f", "t", " ", "c", "o", "r", "p">>,
      <<" ", "m", "s", "f", "t", " ", "c", "o", "r", "p">>,
      <<"s", "p", "y">>,
      <<"z", "z">> }

\* The symbol lists a caller passes to Market.
RECURSIVE SymbolLists(_)
SymbolLists(n) ==
    IF n = 0 THEN {<<>>}
    ELSE SymbolLists(n - 1)
         \cup {Append(l, s) : l \in {x \in SymbolLists(n - 1) : Len(x) = n - 1},
                              s \in MemberSymbols}

\* The risk-free symbols a caller passes: the default 'SPTI', and "zz".
RiskFreeSymbols == {SPTI, <<"z", "z">>}

\* The frames a caller assigns to Stock.history: provider frames over the
\* whole period, as requery_data returns them.
UserFrames ==
    {Download(t, <<Digits[1]>>, <<Digits[MaxDay]>>) : t \in {TSLA, SPY}}

\* The start dates a caller passes to Market: the first day of the period,
\* as a date and as a date-time.
MarketStarts == {<<Digits[1]>>, <<Digits[1], " ", "t">>}

\* The symbols a caller assigns to a Stock a Market holds: "msft" and "zz".
HeldOpSymbols ==
    { <<"m", "s", "f", "t">>,
      <<"z", "z">> }

\* The symbol of the handle a caller assigns to a Stock a Market holds: "zz".
HeldDataSymbols == { <<"z", "z">> }

\* The frame a caller assigns to the history of a Stock a Market holds: the
\* provider's frame of SPY over the whole period.
HeldFrames == {Download(SPY, <<Digits[1]>>, <<Digits[MaxDay]>>)}

\* The date a caller assigns to a date of a Stock a Market holds: day 2.
HeldDates == {<<Digits[2]>>}

\* The end dates a caller passes to Market: the first day (an empty range)
\* and the last day of the period.
MarketEnds == {<<Digits[1]>>, <<Digits[MaxDay]>>}

\* The symbols passed where every operation of a Stock is exercised:
\* "tsla", "spy" and "zz".
OpSymbols ==
    { <<"t", "s", "l", "a">>,
      <<"s", "p", "y">>,
      <<"z", "z">> }

\* ------------------------------------------------------------------- state
VARIABLES
    constructed,  \* whether the Stock object exists
    stock,        \* the Stock object's attributes
    fetched,      \* whether the last operation called the provider
    lastOp,       \* log: the operation the caller ran last
    lastArg,      \* log: the symbol it was given
    lastExc,      \* log: the exception it raised ("none" when it returned)
    ctor_symbol,  \* log: the symbol the Stock was constructed from
    went_away,    \* log: whether another symbol was assigned since (and took)
    mkt_made,     \* whether the Market object exists
    market,       \* the Market object's attributes
    mkt_symbols,  \* the symbols the Market constructor was given
    mkt_rf,       \* the risk-free symbol it was given
    mkt_exc,      \* the exception the last operation on the Market raised
    mkt_op,       \* log: what the caller ran last: "construct", "calculate_stats"
                  \* (of the Market) or "stock" (an operation on a Stock it holds)
    mkt_ops       \* how many operations ran since the Market's construction

log_vars == <<lastOp, lastArg, lastExc, ctor_symbol, went_away>>

stock_vars == <<constructed, stock, fetched>>

mkt_vars == <<mkt_made, market, mkt_symbols, mkt_rf, mkt_exc, mkt_op, mkt_ops>>

vars == <<stock_vars, log_vars, mkt_vars>>

NoObject == [_ticker |-> None]

Init ==
    /\ constructed = FALSE
    /\ stock = NoObject
    /\ fetched = FALSE
    /\ lastOp = "start"
    /\ lastArg = <<>>
    /\ lastExc = "none"
    /\ ctor_symbol = <<>>
    /\ went_away = FALSE
    /\ mkt_made = FALSE
    /\ market = NoObject
    /\ mkt_symbols = <<>>
    /\ mkt_rf = <<>>
    /\ mkt_exc = "none"
    /\ mkt_op = "start"
    /\ mkt_ops = 0

\* ----------------------------------------------------------- Stock actions
\* Stock(symbol, start, end)
Construct(symbol, start, end) ==
    LET r == StockInit(symbol, start, end) IN
    /\ ~constructed
    /\ lastOp = "start"
    /\ constructed' = (r.exc = "none")
    /\ stock' = IF r.exc = "none" THEN r.self ELSE NoObject
    /\ fetched' = TRUE
    /\ UNCHANGED mkt_vars

\* stock.ticker = symbol
SetTicker(symbol) ==
    /\ constructed
    /\ stock' = TickerSet(stock, symbol).self
    /\ fetched' = TRUE
    /\ UNCHANGED <<constructed, mkt_vars>>

\* stock.start_date = date (a plain attribute)
SetStartDate(date) ==
    /\ constructed
    /\ stock' = [stock EXCEPT !.start_date = date]
    /\ fetched' = FALSE
    /\ UNCHANGED <<constructed, mkt_vars>>

\* stock.end_date = date (a plain attribute)
SetEndDate(date) ==
    /\ constructed
    /\ stock' = [stock EXCEPT !.end_date = date]
    /\ fetched' = FALSE
    /\ UNCHANGED <<constructed, mkt_vars>>

\* stock.stock_data = Ticker(symbol)
SetStockData(symbol) ==
    /\ constructed
    /\ stock' = StockDataSet(stock, Ticker(symbol))
    /\ fetched' = TRUE
    /\ UNCHANGED <<constructed, mkt_vars>>

\* stock.history = frame
SetHistory(frame) ==
    /\ constructed
    /\ stock' = [stock EXCEPT !._history = frame]
    /\ fetched' = FALSE
    /\ UNCHANGED <<constructed, mkt_vars>>

\* stock.history (a read)
ReadHistory ==
    /\ constructed
    /\ stock' = [stock EXCEPT !._history = HistoryGet(stock._history)]
    /\ fetched' = FALSE
    /\ UNCHANGED <<constructed, mkt_vars>>

\* stock.average, stock.variance, stock.std_dev, stock.min, stock.max,
\* stock.return_pct (reads of plain attributes)
ReadStats ==
    /\ constructed
    /\ fetched' = FALSE
    /\ UNCHANGED <<constructed, stock, mkt_vars>>

\* stock.calculate_stats()
CallCalculateStats ==
    /\ constructed
    /\ stock' = CalculateStats(stock).self
    /\ fetched' = TRUE
    /\ UNCHANGED <<constructed, mkt_vars>>

\* stock.requery_data(start, end): returns a frame, assigns nothing
Requery(start, end) ==
    /\ constructed
    /\ NumRows(RequeryData(stock, start, end)) >= 0
    /\ fetched' = TRUE
    /\ UNCHANGED <<constructed, stock, mkt_vars>>

\* ---------------------------------------------------------- Market actions
\* Market(symbols, rf, start, end)
MarketConstruct(symbols, rf, start, end) ==
    LET r == MarketInit(symbols, rf, start, end) IN
    /\ ~mkt_made
    /\ mkt_op = "start"
    /\ mkt_made' = (r.exc = "none")
    /\ market' = IF r.exc = "none" THEN r.self ELSE NoObject
    /\ mkt_symbols' = symbols
    /\ mkt_rf' = rf
    /\ mkt_exc' = r.exc
    /\ mkt_op' = "construct"
    /\ mkt_ops' = 0
    /\ UNCHANGED <<stock_vars, log_vars>>

\* The Stocks a Market holds are reached through its public attributes:
\* market.risk_free (who = 0) and market.stocks[who - 1] (who >= 1).
Held(who) == IF who = 0 THEN market.risk_free ELSE market.stocks[who]

\* An operation run on one Stock a constructed Market holds: r is that Stock
\* afterwards and the exception raised.  Nothing else of the Market changes.
HeldOp(who, r) ==
    /\ mkt_made
    /\ mkt_ops < MaxMarketOps
    /\ who \in 0..Len(market.stocks)
    /\ market' = IF who = 0
                 THEN [market EXCEPT !.risk_free = r.self]
                 ELSE [market EXCEPT !.stocks[who] = r.self]
    /\ mkt_exc' = r.exc
    /\ mkt_op' = "stock"
    /\ mkt_ops' = mkt_ops + 1
    /\ UNCHANGED <<mkt_made, mkt_symbols, mkt_rf, stock_vars, log_vars>>

\* A Stock the Market holds is there to operate on.
Holds(who) == mkt_made /\ who \in 0..Len(market.stocks)

\* market.stocks[i].ticker = symbol, market.risk_free.ticker = symbol
HeldSetTicker(who, symbol) ==
    /\ Holds(who)
    /\ HeldOp(who, TickerSet(Held(who), symbol))

\* market.stocks[i].start_date = date, market.risk_free.start_date = date
HeldSetStartDate(who, date) ==
    /\ Holds(who)
    /\ HeldOp(who, [self |-> [Held(who) EXCEPT !.start_date = date],
                    exc |-> "none"])

\* market.stocks[i].end_date = date, market.risk_free.end_date = date
HeldSetEndDate(who, date) ==
    /\ Holds(who)
    /\ HeldOp(who, [self |-> [Held(who) EXCEPT !.end_date = date],
                    exc |-> "none"])

\* market.stocks[i].stock_data = Ticker(symbol), likewise on market.risk_free
HeldSetStockData(who, symbol) ==
    /\ Holds(who)
    /\ HeldOp(who, [self |-> StockDataSet(Held(who), Ticker(symbol)),
                    exc |-> "none"])

\* market.stocks[i].history = frame, market.risk_free.history = frame
HeldSetHistory(who, frame) ==
    /\ Holds(who)
    /\ HeldOp(who, [self |-> [Held(who) EXCEPT !._history = frame],
                    exc |-> "none"])

\* market.stocks[i].history, market.risk_free.history (a read: the getter
\* writes the derived columns into the Stock's frame)
HeldReadHistory(who) ==
    /\ Holds(who)
    /\ HeldOp(who, [self |-> [Held(who) EXCEPT
                                !._history = HistoryGet(Held(who)._history)],
                    exc |-> "none"])

\* market.stocks[i].calculate_stats(), market.risk_free.calculate_stats()
HeldCalculateStats(who) ==
    /\ Holds(who)
    /\ HeldOp(who, CalculateStats(Held(who)))

\* market.calculate_stats()
CallMarketCalculateStats ==
    LET r == MarketCalculateStats(market) IN
    /\ mkt_made
    /\ mkt_ops < MaxMarketOps
    /\ market' = r.self
    /\ mkt_exc' = r.exc
    /\ mkt_op' = "calculate_stats"
    /\ mkt_ops' = mkt_ops + 1
    /\ UNCHANGED <<mkt_made, mkt_symbols, mkt_rf, stock_vars, log_vars>>

\* What the caller saw of the operation it ran last.
Log(op, arg, exc) ==
    /\ lastOp' = op
    /\ lastArg' = arg
    /\ lastExc' = exc

\* Every operation of one Stock object (the symbols are not logged).
Next ==
    \/ /\ lastOp = "start"
       /\ \E symbol \in OpSymbols, start \in DateStrings \cup DateTimeStrings,
             end \in DateStrings \cup DateTimeStrings :
               /\ Construct(symbol, start, end)
               /\ Log("construct", <<>>, StockInit(symbol, start, end).exc)
               /\ UNCHANGED <<ctor_symbol, went_away>>
    \/ \E symbol \in OpSymbols :
            /\ SetTicker(symbol)
            /\ Log("set_ticker", <<>>, TickerSet(stock, symbol).exc)
            /\ UNCHANGED <<ctor_symbol, went_away>>
    \/ \E date \in DateStrings :
            /\ SetStartDate(date)
            /\ Log("set_start_date", <<>>, "none")
            /\ UNCHANGED <<ctor_symbol, went_away>>
    \/ \E date \in DateStrings :
            /\ SetEndDate(date)
            /\ Log("set_end_date", <<>>, "none")
            /\ UNCHANGED <<ctor_symbol, went_away>>
    \/ \E symbol \in OpSymbols :
            /\ SetStockData(symbol)
            /\ Log("set_stock_data", <<>>, "none")
            /\ UNCHANGED <<ctor_symbol, went_away>>
    \/ \E frame \in UserFrames :
            /\ SetHistory(frame)
            /\ Log("set_history", <<>>, "none")
            /\ UNCHANGED <<ctor_symbol, went_away>>
    \/ ReadHistory /\ Log("read_history", <<>>, "none") /\ UNCHANGED <<ctor_symbol, went_away>>
    \/ ReadStats /\ Log("read_stats", <<>>, "none") /\ UNCHANGED <<ctor_symbol, went_away>>
    \/ /\ CallCalculateStats
       /\ Log("calculate_stats", <<>>, CalculateStats(stock).exc)
       /\ UNCHANGED <<ctor_symbol, went_away>>
    \/ \E start \in DateTimeStrings, end \in {<<Digits[MaxDay]>>} :
            /\ Requery(start, end)
            /\ Log("requery_data", <<>>, "none")
            /\ UNCHANGED <<ctor_symbol, went_away>>

Spec == Init /\ [][Next]_vars

\* Construction and ticker assignment alone, with the symbols logged.
TickerNext ==
    \/ /\ lastOp = "start"
       /\ \E symbol \in Symbols, start \in DateStrings \cup DateTimeStrings,
             end \in DateStrings \cup DateTimeStrings :
               /\ Construct(symbol, start, end)
               /\ Log("construct", symbol, StockInit(symbol, start, end).exc)
               /\ ctor_symbol' = symbol
               /\ went_away' = FALSE
    \/ \E symbol \in Symbols :
            /\ SetTicker(symbol)
            /\ Log("set_ticker", symbol, TickerSet(stock, symbol).exc)
            /\ went_away' = (went_away \/ (/\ symbol # ctor_symbol
                                           /\ TickerSet(stock, symbol).exc = "none"))
            /\ UNCHANGED ctor_symbol

TickerSpec == Init /\ [][TickerNext]_vars

\* The construction of one Market and the operations a caller runs on it
\* and on the Stocks it holds (its members and its risk-free Stock)
\* afterwards.
MarketNext ==
    \/ /\ mkt_op = "start"
       /\ \E symbols \in SymbolLists(MaxMembers), rf \in RiskFreeSymbols,
             start \in MarketStarts, end \in MarketEnds :
               MarketConstruct(symbols, rf, start, end)
    \/ \E who \in 0..MaxMembers, symbol \in HeldOpSymbols : HeldSetTicker(who, symbol)
    \/ \E who \in 0..MaxMembers, date \in HeldDates : HeldSetStartDate(who, date)
    \/ \E who \in 0..MaxMembers, date \in HeldDates : HeldSetEndDate(who, date)
    \/ \E who \in 0..MaxMembers, symbol \in HeldDataSymbols : HeldSetStockData(who, symbol)
    \/ \E who \in 0..MaxMembers, frame \in HeldFrames : HeldSetHistory(who, frame)
    \/ \E who \in 0..MaxMembers : HeldReadHistory(who)
    \/ \E who \in 0..MaxMembers : HeldCalculateStats(who)
    \/ CallMarketCalculateStats

MarketSpec == Init /\ [][MarketNext]_vars

\* ------------------------------------------------------------------ claims
\* The first whitespace-delimited token of a string (the empty string when
\* it holds no token).
FirstToken(s) ==
    LET inked == {i \in 1..Len(s) : s[i] # " "}
    IN  IF inked = {} THEN <<>>
        ELSE LET first == CHOOSE i \in inked : \A j \in inked : i <= j
                 stops == {i \in first..Len(s) : s[i] = " "} \cup {Len(s) + 1}
                 stop == CHOOSE i \in stops : \A j \in stops : i <= j
             IN  SubSeq(s, first, stop - 1)

\* The text of a string before its first space.
BeforeSpace(s) ==
    LET stops == {i \in 1..Len(s) : s[i] = " "} \cup {Len(s) + 1}
    IN  SubSeq(s, 1, (CHOOSE i \in stops : \A j \in stops : i <= j) - 1)

IsUpperCase(s) == \A i \in 1..Len(s) : \A j \in 1..Len(LowerCase) : s[i] # LowerCase[j]

HasNoWhitespace(s) == \A i \in 1..Len(s) : s[i] # " "

\* What a caller reads of a Stock's statistics.
StatNames == {"return_pct", "average", "variance", "std_dev", "max", "min"}

StatsRead(s) == [k \in StatNames |-> s[k]]

\* The series is the provider's for the stored ticker and dates, and beta and
\* the statistics are those of that ticker and series.
AllOfOneTicker(s) ==
    LET r == CalculateStats(StockDataSet(s, Ticker(s._ticker)))
    IN  /\ r.exc = "none"
        /\ Raw(s._history) = Raw(r.self._history)
        /\ s.beta = r.self.beta
        /\ StatsRead(s) = StatsRead(r.self)

\* C1: after construction and after every ticker assignment, the stored
\* ticker is upper-case, holds no whitespace and is the first
\* whitespace-delimited token of the most recent input.
C1_TickerNormalized ==
    constructed =>
        /\ IsUpperCase(stock._ticker)
        /\ HasNoWhitespace(stock._ticker)
        /\ stock._ticker = Upper(FirstToken(lastArg))

\* C2: after the start date or the end date of a Stock is changed (to a
\* range the provider has bars for), the stored series is the provider's for
\* the stored ticker over the new range and the statistics are that series'.
C2_DateChangeRefetches ==
    (/\ constructed
     /\ lastOp \in {"set_start_date", "set_end_date"}
     /\ NumRows(Download(stock._ticker, stock.start_date, stock.end_date)) > 0)
    =>  /\ Raw(stock._history)
             = Download(stock._ticker, stock.start_date, stock.end_date)
        /\ StatsRead(stock) = FrameStats(HistoryGet(stock._history))

\* C3: after a ticker assignment returns or raises, the stored ticker, the
\* stored series, beta and the statistics all belong to the same ticker.
C3_SetTickerAtomic ==
    (constructed /\ lastOp = "set_ticker") => AllOfOneTicker(stock)

\* C4: reading the statistics calls the provider never, and what is read are
\* the statistics of the series the Stock stores at that moment.
C4_StatsReflectSeries ==
    (constructed /\ lastOp = "read_stats" /\ NumRows(stock._history) > 0)
    =>  /\ ~fetched
        /\ StatsRead(stock) = FrameStats(HistoryGet(stock._history))

\* C8: in the frame a history read returns, Close-Open = Close - Open and
\* High-Low = High - Low on every bar, and reading it again returns the very
\* same frame: the same derived values and unchanged raw columns.
C8_HistoryDerived ==
    (constructed /\ lastOp = "read_history") =>
        LET h == stock._history IN
        /\ \A i \in 1..NumRows(h) :
              /\ h["Close-Open"][i] = h["Close"][i] - h["Open"][i]
              /\ h["High-Low"][i] = h["High"][i] - h["Low"][i]
        /\ HistoryGet(h) = h

\* C8 witness: a history read returned a frame of two or more bars with a
\* non-zero delta.
C8_Witness ==
    /\ constructed
    /\ lastOp = "read_history"
    /\ NumRows(stock._history) >= 2
    /\ \E i \in 1..NumRows(stock._history) : stock._history["Close-Open"][i] # 0

\* C9: a Stock constructed from a symbol, assigned another symbol and then
\* the first one again, has the ticker, the series and the statistics of a
\* Stock freshly constructed from that symbol over the same dates.
C9_RoundTripRestores ==
    (constructed /\ lastOp = "set_ticker" /\ went_away /\ lastArg = ctor_symbol)
    =>  LET fresh == StockInit(ctor_symbol, stock.start_date, stock.end_date).self
        IN  /\ stock._ticker = fresh._ticker
            /\ Raw(stock._history) = Raw(fresh._history)
            /\ StatsRead(stock) = StatsRead(fresh)

\* The arithmetic mean of a non-empty sequence of floats, over a common
\* denominator.
RECURSIVE DenProduct(_)
DenProduct(xs) == IF xs = <<>> THEN 1 ELSE Head(xs).d * DenProduct(Tail(xs))

RECURSIVE NumSum(_, _)
NumSum(xs, den) ==
    IF xs = <<>> THEN 0
    ELSE Head(xs).n * (den \div Head(xs).d) + NumSum(Tail(xs), den)

MeanOfFloats(xs) ==
    IF \E i \in 1..Len(xs) : IsNaN(xs[i]) THEN NaN
    ELSE Rat(NumSum(xs, DenProduct(xs)), DenProduct(xs) * Len(xs))

\* Whether the Market constructor has run.
MarketAttempted == mkt_op # "start"

\* C5: when the construction of a Market from n symbols returns, the Market
\* holds exactly n member Stocks, whose tickers are the normalized (upper-case,
\* first token) symbols in the order given; the risk-free Stock is held apart
\* from the list.
C5_MembersInOrder ==
    (mkt_made /\ mkt_op = "construct") =>
        /\ Len(market.stocks) = Len(mkt_symbols)
        /\ \A i \in 1..Len(mkt_symbols) :
              market.stocks[i]._ticker = Upper(FirstToken(mkt_symbols[i]))
        /\ market.risk_free._ticker = Upper(FirstToken(mkt_rf))

\* C5 witness: a Market just constructed, of two or more members with
\* different tickers.
C5_Witness ==
    /\ mkt_made
    /\ mkt_op = "construct"
    /\ Len(market.stocks) >= 2
    /\ market.stocks[1]._ticker # market.stocks[2]._ticker
    /\ market.stocks[1]._ticker # market.risk_free._ticker

\* The Market's statistics were computed last: by the constructor, or by a
\* call of Market.calculate_stats since.
MarketStatsComputed == mkt_made /\ mkt_op \in {"construct", "calculate_stats"}

\* C6: whenever the Market's statistics are computed (by the constructor or
\* by a call of calculate_stats), for every feature the Market's mean,
\* variance and standard deviation are the unweighted means, over the member
\* Stocks alone, of the members' own mean, variance and standard deviation,
\* and its return is the unweighted mean of the members' returns.
C6_BasketIsMeanOfMembers ==
    MarketStatsComputed =>
        LET n == Len(market.stocks) IN
        /\ n >= 1
        /\ \A k \in MktKeys :
              /\ market.average[k]
                   = MeanOfFloats([i \in 1..n |-> market.stocks[i].average[k]])
              /\ market.variance[k]
                   = MeanOfFloats([i \in 1..n |-> market.stocks[i].variance[k]])
              /\ market.std_dev[k]
                   = [sum_sqrt_of |-> [i \in 1..n |-> market.stocks[i].std_dev[k].sqrt_of],
                      div |-> n]
        /\ market.raw_return_pct
             = MeanOfFloats([i \in 1..n |-> market.stocks[i].return_pct])

\* C6 witness: a Market whose statistics were computed anew after a member
\* was assigned another ticker, whose members have different bar counts, and
\* whose mean open is not the mean of the pooled bars.
C6_Witness ==
    /\ mkt_made
    /\ mkt_op = "calculate_stats"
    /\ \E i \in 1..Len(market.stocks) :
          market.stocks[i]._ticker # BeforeSpace(market.tickers[i])
    /\ Len(market.stocks) >= 2
    /\ NumRows(market.stocks[1]._history) # NumRows(market.stocks[2]._history)
    /\ market.average["open"] # SeriesMean(PooledColumn(market.stocks, "open", 1))
    /\ ~IsNaN(market.average["open"])

\* The exceptions with which a Stock constructor fails when the provider has
\* no data for it.
DataUnavailable == {"KeyError", "ValueError"}

\* C7: constructing a Market from an empty list of symbols fails with
\* EmptyBasket or yields statistics that are all not-a-number (or fails
\* because the provider has no data for the risk-free Stock); no other error
\* escapes.
C7_EmptyBasketOutcome ==
    (MarketAttempted /\ mkt_symbols = <<>>)
    =>  \/ mkt_exc = "EmptyBasket"
        \/ mkt_exc \in DataUnavailable
        \/ /\ mkt_made
           /\ \A k \in MktKeys : IsNaN(market.average[k]) /\ IsNaN(market.variance[k])

\* C10 as claimed: in every state of a constructed Market the ticker the
\* Market lists at i is the ticker of its i-th member Stock.
C10_TickersAgree ==
    mkt_made =>
        \A i \in 1..Len(market.stocks) :
            market.tickers[i] = market.stocks[i]._ticker

\* C10 amended: the Market lists the upper-cased symbols, whatever is run on
\* it or its members afterwards; when its construction returns, the ticker of
\* its i-th member Stock is the listed ticker up to its first space, so the
\* two agree exactly when the symbol holds no space.
C10_TickersPrefix ==
    mkt_made =>
        /\ Len(market.tickers) = Len(market.stocks)
        /\ \A i \in 1..Len(market.stocks) :
              /\ market.tickers[i] = Upper(mkt_symbols[i])
              /\ mkt_op = "construct" =>
                    /\ market.stocks[i]._ticker = BeforeSpace(market.tickers[i])
                    /\ (market.tickers[i] = market.stocks[i]._ticker
                          <=> HasNoWhitespace(mkt_symbols[i]))

\* C10 witness: a Market just constructed whose listed ticker differs from
\* its member's.
C10_Witness ==
    /\ mkt_made
    /\ mkt_op = "construct"
    /\ \E i \in 1..Len(market.stocks) :
          /\ ~HasNoWhitespace(mkt_symbols[i])
          /\ market.tickers[i] # market.stocks[i]._ticker
====
